---- MODULE Spec2Model ----
(***************************************************************************)
(* Token-refresh-aware HTTP client of src/src/lib/api/endpoints.ts         *)
(* (loginEndpoint, saveTokens, isTokenExpired, refreshTokenEndpoint,       *)
(* apiClient) together with the login form, the logout handler and the     *)
(* PrivateRoute guard that share its localStorage record.                  *)
(*                                                                         *)
(* Scheduling is the browser's event loop.  A task is one network event or *)
(* one user event; it runs to its next await.  When a promise settles, the *)
(* continuations of the functions awaiting it are queued as microtasks and *)
(* all of them run, in the order they started to await, before the next    *)
(* task.  The variable microtasks is that queue: every task-level action   *)
(* requires it to be empty.                                                *)
(*                                                                         *)
(* Values.  A token is a positive number, 0 is the empty string "" (the    *)
(* only falsy string); a key that is absent from storage is not in its     *)
(* domain.  The string stored for expires_in, refresh_expires_in and       *)
(* token_timestamp is the number whose decimal digits it holds, or         *)
(* NotNumeric for a string without leading digits.  undefined (a field the *)
(* JSON does not have, an ApiError without status) is -1, NaN is -2.       *)
(*                                                                         *)
(* An apiClient call is named by a number, in the order the calls are      *)
(* made.  A call has at most one execution of refreshTokenEndpoint of its  *)
(* own at a time (the proactive one, later the reactive one), so an        *)
(* execution is named by the call that started it: refreshes[c].  The      *)
(* record of an execution is dropped once every continuation awaiting its  *)
(* promise has run, and the locals of a call are dropped once its result   *)
(* has been handed to the endpoint wrapper that awaited it.                *)
(* refreshPromise = 0 is null.                                             *)
(***************************************************************************)
EXTENDS Integers, Sequences, FiniteSets, TLC

\* Bounds of the model.
NumCallers == 2
MaxTicks == 1
MaxMinted == 2

Callers == 1..NumCallers

VARIABLES
    now,             \* Date.now(), milliseconds
    storage,         \* localStorage: the keys present and their values
    pathname,        \* window.location.pathname
    isRefreshing,    \* module variable isRefreshing
    refreshPromise,  \* module variable refreshPromise (0 = null)
    refreshes,       \* the executions of refreshTokenEndpoint, by starting call
    callers,         \* every apiClient call: position and locals
    microtasks,      \* queued continuations (the calls to resume)
    minted,          \* number of token pairs the server has issued
    login            \* the login form: "idle" or "sent"

vars == <<now, storage, pathname, isRefreshing, refreshPromise, refreshes,
          callers, microtasks, minted, login>>

CredKeys == {"access_token", "refresh_token", "token_type", "expires_in",
             "refresh_expires_in", "token_timestamp"}

\* undefined
Undefined == 0 - 1

\* NaN
NaN == 0 - 2

\* a stored string that does not start with digits, such as "abc"
NotNumeric == 0 - 3

----------------------------------------------------------------------------
\* localStorage

getItem(st, k) == IF k \in DOMAIN st THEN st[k] ELSE 0

setItem(st, k, v) == [x \in (DOMAIN st) \cup {k} |-> IF x = k THEN v ELSE st[x]]

removeItem(st, k) == [x \in (DOMAIN st) \ {k} |-> st[x]]

getAccessToken(st) == getItem(st, "access_token")

getRefreshToken(st) == getItem(st, "refresh_token")

\* if (token), if (refreshToken): null and "" are falsy
Truthy(v) == v # 0

\* parseInt(string, 10) of a stored string
parseInt(v) == IF v = NotNumeric THEN NaN ELSE v

\* an expiry test with a grace period of one second
isTokenExpired_Grace(st, t) ==
    IF "expires_in" \notin DOMAIN st \/ "token_timestamp" \notin DOMAIN st
    THEN TRUE
    ELSE LET tokenTimestamp == parseInt(st["token_timestamp"])
             expiresIn == parseInt(st["expires_in"])
             expirationTime == IF tokenTimestamp = NaN \/ expiresIn = NaN THEN NaN
                               ELSE tokenTimestamp + expiresIn * 1000
         IN  IF expirationTime = NaN THEN FALSE
             ELSE t >= expirationTime + 1000

\* lines 168-178: without expires_in or token_timestamp the token is expired;
\* otherwise Date.now() >= expirationTime, which is false when that is NaN
isTokenExpired(st, t) ==
    IF "expires_in" \notin DOMAIN st \/ "token_timestamp" \notin DOMAIN st
    THEN TRUE
    ELSE LET tokenTimestamp == parseInt(st["token_timestamp"])
             expiresIn == parseInt(st["expires_in"])
             expirationTime == IF tokenTimestamp = NaN \/ expiresIn = NaN THEN NaN
                               ELSE tokenTimestamp + expiresIn * 1000
         IN  IF expirationTime = NaN THEN FALSE
             ELSE t >= expirationTime

\* data.expires_in.toString() and data.refresh_expires_in.toString() throw a
\* TypeError when the field is undefined
SaveThrows(data) == data.expires_in = Undefined \/ data.refresh_expires_in = Undefined

\* a save that keeps the timestamp of the record it overwrites
saveTokens_KeepsTimestamp(st, data, t) ==
    LET s1 == setItem(st, "access_token", data.access_token)
        s2 == setItem(s1, "refresh_token", data.refresh_token)
        s3 == setItem(s2, "token_type", data.token_type)
        s4 == IF data.expires_in = Undefined THEN s3
              ELSE setItem(s3, "expires_in", data.expires_in)
        s5 == IF SaveThrows(data) THEN s4
              ELSE setItem(s4, "refresh_expires_in", data.refresh_expires_in)
    IN  IF SaveThrows(data) \/ "token_timestamp" \in DOMAIN st THEN s5
        ELSE setItem(s5, "token_timestamp", t)

\* lines 183-195: six setItem calls in this order; the store as the call
\* leaves it, which is after the writes that precede the throw when it throws
saveTokens(st, data, t) ==
    LET s1 == setItem(st, "access_token", data.access_token)
        s2 == setItem(s1, "refresh_token", data.refresh_token)
        s3 == setItem(s2, "token_type", data.token_type)
        s4 == IF data.expires_in = Undefined THEN s3
              ELSE setItem(s3, "expires_in", data.expires_in)
        s5 == IF SaveThrows(data) THEN s4
              ELSE setItem(s4, "refresh_expires_in", data.refresh_expires_in)
    IN  IF SaveThrows(data) THEN s5 ELSE setItem(s5, "token_timestamp", t)

\* the six removeItem calls of the refresh catch, the apiClient catch and logout
clearTokens(st) ==
    LET s1 == removeItem(st, "access_token")
        s2 == removeItem(s1, "refresh_token")
        s3 == removeItem(s2, "token_type")
        s4 == removeItem(s3, "expires_in")
        s5 == removeItem(s4, "refresh_expires_in")
    IN  removeItem(s5, "token_timestamp")

----------------------------------------------------------------------------
\* What the network can answer

\* fetch rejects: a TypeError whose message contains "fetch", or anything else
Rejections == {"TypeError:fetch", "Error:other"}

\* response.status, and the status field of the JSON envelope
Statuses == {200, 401, 500}

\* apiClient looks at one thing in the answer to the wrapped request: 401 or not
ApiStatuses == {200, 401}

\* expires_in of an issued token: expired on receipt, or after one second
ExpiresIn == {0, 1}

\* response.text(): "", not JSON, JSON with success true, JSON with success false
Bodies == {"empty", "malformed", "success", "failure"}

\* the token pairs the server can issue next: a new access token, and a new
\* refresh token or "" (refresh_token: string; the server issues none); the
\* JSON may come without the two lifetimes
TokenData ==
    IF minted >= MaxMinted THEN {}
    ELSE { [access_token |-> minted + 1, refresh_token |-> rt, token_type |-> "Bearer",
            expires_in |-> e, refresh_expires_in |-> e] :
           rt \in {0, minted + 1}, e \in ExpiresIn \cup {Undefined} }

\* the answers to POST /auth/login and POST /auth/refresh
AuthResponses ==
    { [kind |-> "reject", why |-> w, status |-> 0, body |-> "empty"] : w \in Rejections }
    \cup { [kind |-> "response", why |-> "", status |-> s, body |-> b] :
           s \in Statuses, b \in Bodies }

\* the answers to the request apiClient wraps
ApiResponses ==
    { [kind |-> "reject", why |-> w, status |-> 0] : w \in Rejections }
    \cup { [kind |-> "response", why |-> "", status |-> s] : s \in ApiStatuses }

ResponseOk(resp) == resp.status >= 200 /\ resp.status <= 299

----------------------------------------------------------------------------
\* Errors

NoError == [name |-> "none", status |-> Undefined, refresh |-> 0]

\* new ApiError(message, status, data); refresh is the refresh operation that threw it
ApiError(status, r) == [name |-> "ApiError", status |-> status, refresh |-> r]

\* the catch around fetch: a TypeError mentioning "fetch" becomes ApiError status 0
FetchError(why, r) ==
    IF why = "TypeError:fetch" THEN ApiError(0, r)
    ELSE [name |-> "Error", status |-> Undefined, refresh |-> r]

\* undefined.toString() inside saveTokens
TypeError(r) == [name |-> "TypeError", status |-> Undefined, refresh |-> r]

\* the catch around response.text() and JSON.parse
ParseError(resp, r) == ApiError(resp.status, r)

\* a catch that rethrows what it caught
WrapError_Rethrows(e) == e

\* the outermost catch of loginEndpoint, refreshTokenEndpoint, apiClient and
\* the endpoint wrappers
WrapError(e) ==
    IF e.name = "ApiError" THEN e ELSE ApiError(Undefined, e.refresh)

----------------------------------------------------------------------------
\* refreshTokenEndpoint

\* cleared counts the times the six fields were removed because this
\* execution failed, requests the requests it has sent to /auth/refresh
NoRefresh == [phase |-> "none", waiters |-> <<>>, primary |-> 0, headerSent |-> FALSE,
              error |-> NoError, saved |-> 0, cleared |-> 0, requests |-> 0]

InFlight(r) == r.phase \in {"primary", "header"}

Settled(r) == r.phase \in {"fulfilled", "rejected"}

\* lines 206-225, the synchronous part: without a refresh token throw at once,
\* otherwise send the body-mode request
StartRefresh(st, c) ==
    IF ~Truthy(getRefreshToken(st))
    THEN [NoRefresh EXCEPT !.phase = "rejected", !.error = ApiError(401, c)]
    ELSE [NoRefresh EXCEPT !.phase = "primary", !.requests = 1]

\* a body mode that takes every 2xx answer it can parse as a success
PrimaryOutcome_AcceptsFailure(resp) ==
    IF resp.kind = "reject" THEN "throw"
    ELSE IF resp.body = "empty" \/ resp.body = "malformed" THEN "throw"
    ELSE IF ~ResponseOk(resp)
         THEN IF resp.status = 401 THEN "header" ELSE "throw"
    ELSE "save"

\* a body mode that falls back to the header mode after any answer it refuses
PrimaryOutcome_HeaderOnAnyFailure(resp) ==
    IF resp.kind = "reject" THEN "throw"
    ELSE IF resp.body = "empty" \/ resp.body = "malformed" THEN "throw"
    ELSE IF ~ResponseOk(resp) \/ resp.body = "failure" THEN "header"
    ELSE "save"

\* lines 226-322, what the code does with the body-mode answer:
\* "save", "header" (send the header-mode request) or "throw"
PrimaryOutcome(resp) ==
    IF resp.kind = "reject" THEN "throw"
    ELSE IF resp.body = "empty" \/ resp.body = "malformed" THEN "throw"
    ELSE IF ~ResponseOk(resp) \/ resp.body = "failure"
         THEN IF resp.status = 401 THEN "header" ELSE "throw"
    ELSE "save"

\* lines 261-312, what the code does with the header-mode answer: "save" or "throw"
HeaderOutcome(resp) ==
    IF resp.kind = "reject" THEN "throw"
    ELSE IF resp.body = "empty" \/ resp.body = "malformed" THEN "throw"
    ELSE IF ~ResponseOk(resp) \/ resp.body = "failure" THEN "throw"
    ELSE "save"

\* the error either mode throws for an answer it does not accept
RefreshThrown(resp, r) ==
    IF resp.kind = "reject" THEN FetchError(resp.why, r)
    ELSE IF resp.body = "empty" \/ resp.body = "malformed" THEN ParseError(resp, r)
    ELSE ApiError(resp.status, r)

\* a catch that forgets the expiry fields
RefreshCatch_KeepsExpiry(st) ==
    removeItem(removeItem(removeItem(st, "access_token"), "refresh_token"), "token_type")

\* lines 323-330, the catch of refreshTokenEndpoint: remove the six fields
RefreshCatch(st) == clearTokens(st)

\* the promise of execution r (its record so far: rec) is rejected with e,
\* thrown when the store was st: the catch has run, the continuations awaiting
\* the promise are queued
RefreshFails(r, rec, st, e) ==
    /\ storage' = RefreshCatch(st)
    /\ refreshes' = [refreshes EXCEPT ![r] =
                        [rec EXCEPT !.phase = "rejected", !.error = WrapError(e),
                                    !.cleared = @ + 1]]
    /\ microtasks' = microtasks \o rec.waiters
    /\ UNCHANGED minted

\* lines 305-322: saveTokens(data.data) and return.  The promise of execution
\* r is fulfilled and the continuations awaiting it are queued; when
\* saveTokens throws, the catch handles the TypeError
RefreshSucceeds(r, rec, data) ==
    IF SaveThrows(data)
    THEN RefreshFails(r, rec, saveTokens(storage, data, now), TypeError(r))
    ELSE /\ storage' = saveTokens(storage, data, now)
         /\ refreshes' = [refreshes EXCEPT ![r] =
                             [rec EXCEPT !.phase = "fulfilled", !.saved = data.access_token]]
         /\ microtasks' = microtasks \o rec.waiters
         /\ minted' = minted + 1

\* the body-mode request of execution r is answered
RefreshPrimaryResponse(r, resp) ==
    /\ microtasks = <<>>
    /\ refreshes[r].phase = "primary"
    /\ LET rec == [refreshes[r] EXCEPT !.primary = resp.status]
       IN  CASE PrimaryOutcome(resp) = "header" ->
                  /\ refreshes' = [refreshes EXCEPT ![r] =
                                      [rec EXCEPT !.phase = "header", !.headerSent = TRUE,
                                                  !.requests = @ + 1]]
                  /\ UNCHANGED <<storage, microtasks, minted>>
             [] PrimaryOutcome(resp) = "save" ->
                  \E data \in TokenData : RefreshSucceeds(r, rec, data)
             [] OTHER -> RefreshFails(r, rec, storage, RefreshThrown(resp, r))
    /\ UNCHANGED <<now, pathname, isRefreshing, refreshPromise, callers, login>>

\* the header-mode request of execution r is answered
RefreshHeaderResponse(r, resp) ==
    /\ microtasks = <<>>
    /\ refreshes[r].phase = "header"
    /\ IF HeaderOutcome(resp) = "save"
       THEN \E data \in TokenData : RefreshSucceeds(r, refreshes[r], data)
       ELSE RefreshFails(r, refreshes[r], storage, RefreshThrown(resp, r))
    /\ UNCHANGED <<now, pathname, isRefreshing, refreshPromise, callers, login>>

\* an await whose continuation is never registered
AwaitRefresh_Forgets(rs, r, c) == rs

\* await of the promise of execution r by call c (r = 0: await null): the
\* records after c has been added to the continuations of a pending promise
AwaitRefresh(rs, r, c) ==
    IF r # 0 /\ InFlight(rs[r]) THEN [rs EXCEPT ![r].waiters = Append(@, c)] ELSE rs

\* ... and the microtask queue: awaiting a settled promise (or null) resumes at once
AwaitQueue(rs, r, c, q) ==
    IF r # 0 /\ InFlight(rs[r]) THEN q ELSE Append(q, c)

\* the continuation of call c has read the outcome of execution r: the record
\* is dropped unless a continuation still queued (rest) awaits it
DropRefresh(rs, r, rest) ==
    IF r = 0 \/ \E i \in 1..Len(rest) :
                  callers[rest[i]].pc \in {"proactive", "refresh"} /\ callers[rest[i]].awaits = r
    THEN rs
    ELSE [rs EXCEPT ![r] = NoRefresh]

----------------------------------------------------------------------------
\* apiClient

\* retryCount: number = 0; no caller in the repository passes another value
retryCount == 0

\* the credential of an Authorization header a caller passes in
\* options.headers, and its scheme ("Basic 9"); 0 is no such header
CallerCredential == 9

CallerScheme == "Basic"

\* observed: the refreshPromise the call found registered when its proactive
\* check saw isRefreshing; cleared: the catch of the call removed the six fields;
\* supplied: the Authorization header of options.headers (the endpoint wrappers
\* pass none); scheme and auth: the Authorization header of the request sent
InitCaller == [pc |-> "idle", sends |-> 0, auth |-> 0, awaits |-> 0, first |-> 0,
               status |-> 0, error |-> NoError, redirected |-> FALSE,
               observed |-> 0, cleared |-> FALSE, supplied |-> 0, scheme |-> ""]

DoneCaller == [InitCaller EXCEPT !.pc = "done"]

\* a redirect that does not look at the path
Redirect_Always(cl) == [cl EXCEPT !.redirected = TRUE]

\* if (window.location.pathname !== "/login") window.location.href = "/login":
\* the navigation is requested, the document is still the current one
Redirect(cl) == [cl EXCEPT !.redirected = (pathname # "/login")]

\* lines 393-397: new Headers(options.headers); Authorization is set to
\* `Bearer ${token}` when there is a token and the caller passed none
FirstAuthorization(supplied, st) ==
    IF supplied # 0 THEN [scheme |-> CallerScheme, credential |-> supplied]
    ELSE IF Truthy(getAccessToken(st))
         THEN [scheme |-> "Bearer", credential |-> getAccessToken(st)]
    ELSE [scheme |-> "", credential |-> 0]

\* lines 393-408: attach the headers, issue the request
SendFirst(cl, st) ==
    [cl EXCEPT !.pc = "first", !.sends = @ + 1,
               !.auth = FirstAuthorization(cl.supplied, st).credential,
               !.scheme = FirstAuthorization(cl.supplied, st).scheme,
               !.awaits = 0]

\* a retry that reuses the headers of the first attempt
RetryToken_Stale(cl, st) == cl.auth

\* lines 441-445: new Headers(options.headers); Authorization is set to
\* `Bearer ${newToken}` when there is a token, whatever the caller passed:
\* the credential of the Authorization header of the retried request
RetryToken(cl, st) ==
    IF Truthy(getAccessToken(st)) THEN getAccessToken(st) ELSE cl.supplied

\* ... and its scheme
RetryScheme(cl, st) ==
    IF Truthy(getAccessToken(st)) THEN "Bearer"
    ELSE IF cl.supplied # 0 THEN CallerScheme ELSE ""

\* lines 440-454: attach the headers again, issue the request again
SendRetry(cl, st) ==
    [cl EXCEPT !.pc = "retry", !.sends = @ + 1, !.auth = RetryToken(cl, st),
               !.scheme = RetryScheme(cl, st)]

\* the call throws: lines 496-506 wrap what is not an ApiError
Throw(cl, e) == [cl EXCEPT !.pc = "thrown", !.error = WrapError(e)]

\* a retry that is answered 401 and sends the request once more
ReturnRetry_Loops(cl, resp) ==
    IF resp.status = 401 THEN [cl EXCEPT !.sends = @ + 1]
    ELSE [cl EXCEPT !.pc = "returned", !.status = resp.status]

\* a retry that is answered 401 and ends the session
ReturnRetry_Terminates(cl, resp) ==
    IF resp.status = 401
    THEN [cl EXCEPT !.pc = "thrown", !.error = ApiError(401, 0), !.redirected = TRUE]
    ELSE [cl EXCEPT !.pc = "returned", !.status = resp.status]

\* lines 450-454: return await fetch(...), whatever the status of the answer
ReturnRetry(cl, resp) == [cl EXCEPT !.pc = "returned", !.status = resp.status]

\* line 495: return response
Return(cl, resp) == [cl EXCEPT !.pc = "returned", !.status = resp.status]

\* a check that never refreshes ahead of the request
ProactiveCheck_Never(st, t, flag) == FALSE

\* line 381: the proactive check
ProactiveCheck(st, t, flag) ==
    isTokenExpired(st, t) /\ Truthy(getRefreshToken(st)) /\ ~flag

\* line 381 skips the proactive refresh because isRefreshing is true: the
\* refresh the call has seen in flight
ObservedRefresh(st, t, flag, promise) ==
    IF isTokenExpired(st, t) /\ Truthy(getRefreshToken(st)) /\ flag THEN promise ELSE 0

\* a page of the dashboard calls apiClient(url, options) through an endpoint
\* wrapper: lines 379-408 up to the first await
ApiClientCall(c) ==
    /\ microtasks = <<>>
    /\ pathname = "/dashboard"
    /\ callers[c].pc = "idle"
    /\ \A d \in Callers : d < c => callers[d].pc # "idle"
    /\ IF ProactiveCheck(storage, now, isRefreshing)
       THEN LET rs == [refreshes EXCEPT ![c] = StartRefresh(storage, c)]
            IN  /\ refreshes' = AwaitRefresh(rs, c, c)
                /\ microtasks' = AwaitQueue(rs, c, c, microtasks)
                /\ callers' = [callers EXCEPT ![c].pc = "proactive", ![c].awaits = c]
       ELSE /\ callers' = [callers EXCEPT ![c] =
                              SendFirst([@ EXCEPT !.observed =
                                            ObservedRefresh(storage, now, isRefreshing,
                                                            refreshPromise)],
                                        storage)]
            /\ UNCHANGED <<refreshes, microtasks>>
    /\ UNCHANGED <<now, storage, pathname, isRefreshing, refreshPromise, minted, login>>

\* lines 383-408: the proactive refresh has settled
ProactiveResume(c) ==
    /\ microtasks # <<>> /\ Head(microtasks) = c
    /\ callers[c].pc = "proactive"
    /\ LET r == refreshes[callers[c].awaits]
       IN  IF r.phase = "fulfilled"
           THEN /\ callers' = [callers EXCEPT ![c] = SendFirst(@, storage)]
                /\ microtasks' = Tail(microtasks)
           ELSE /\ callers' = [callers EXCEPT ![c] = Throw(Redirect(@), r.error)]
                /\ microtasks' = Append(Tail(microtasks), c)
    /\ refreshes' = DropRefresh(refreshes, callers[c].awaits, Tail(microtasks))
    /\ UNCHANGED <<now, storage, pathname, isRefreshing, refreshPromise, minted, login>>

\* a reactive path that starts a refresh whatever the flag says
ReactiveHandle_AlwaysStarts(flag, promise, c) ==
    [flag |-> TRUE, promise |-> c, started |-> TRUE]

\* lines 430-433: if (!isRefreshing) start a refresh and register it;
\* the handle afterwards
ReactiveHandle(flag, promise, c) ==
    IF ~flag THEN [flag |-> TRUE, promise |-> c, started |-> TRUE]
    ELSE [flag |-> flag, promise |-> promise, started |-> FALSE]

\* lines 403-495: the first request is answered
FirstResponse(c, resp) ==
    /\ microtasks = <<>>
    /\ callers[c].pc = "first"
    /\ IF resp.kind = "reject"
       THEN /\ callers' = [callers EXCEPT ![c] = Throw(@, FetchError(resp.why, 0))]
            /\ microtasks' = Append(microtasks, c)
            /\ UNCHANGED <<isRefreshing, refreshPromise, refreshes>>
       ELSE IF resp.status = 401 /\ retryCount < 1
       THEN IF Truthy(getRefreshToken(storage))
            THEN LET h  == ReactiveHandle(isRefreshing, refreshPromise, c)
                     rs == IF h.started
                           THEN [refreshes EXCEPT ![c] = StartRefresh(storage, c)]
                           ELSE refreshes
                 IN  /\ isRefreshing' = h.flag
                     /\ refreshPromise' = h.promise
                     /\ refreshes' = AwaitRefresh(rs, h.promise, c)
                     /\ microtasks' = AwaitQueue(rs, h.promise, c, microtasks)
                     /\ callers' = [callers EXCEPT ![c].pc = "refresh",
                                                   ![c].awaits = h.promise,
                                                   ![c].first = resp.status]
            ELSE /\ callers' = [callers EXCEPT ![c] =
                                   Throw(Redirect([@ EXCEPT !.first = resp.status]),
                                         ApiError(401, 0))]
                 /\ microtasks' = Append(microtasks, c)
                 /\ UNCHANGED <<isRefreshing, refreshPromise, refreshes>>
       ELSE /\ callers' = [callers EXCEPT ![c] =
                              Return([@ EXCEPT !.first = resp.status], resp)]
            /\ microtasks' = Append(microtasks, c)
            /\ UNCHANGED <<isRefreshing, refreshPromise, refreshes>>
    /\ UNCHANGED <<now, storage, pathname, minted, login>>

\* a waiter that leaves the handle as it is
ResetHandle_Keeps(flag, promise) == [flag |-> flag, promise |-> promise]

\* a waiter that resets the flag and leaves the promise
ResetHandle_KeepsPromise(flag, promise) == [flag |-> FALSE, promise |-> promise]

\* lines 437-438 and 469-470: isRefreshing = false; refreshPromise = null
ResetHandle(flag, promise) == [flag |-> FALSE, promise |-> 0]

\* lines 471-477: the catch of the reactive path removes the six fields
ApiClientCatch(cl, st) == [store |-> clearTokens(st), caller |-> [cl EXCEPT !.cleared = TRUE]]

\* lines 436-485: the awaited refreshPromise has settled
ReactiveResume(c) ==
    /\ microtasks # <<>> /\ Head(microtasks) = c
    /\ callers[c].pc = "refresh"
    /\ isRefreshing' = ResetHandle(isRefreshing, refreshPromise).flag
    /\ refreshPromise' = ResetHandle(isRefreshing, refreshPromise).promise
    /\ LET p == callers[c].awaits
       IN  IF p = 0 \/ refreshes[p].phase = "fulfilled"
           THEN /\ callers' = [callers EXCEPT ![c] = SendRetry(@, storage)]
                /\ microtasks' = Tail(microtasks)
                /\ refreshes' = DropRefresh(refreshes, p, Tail(microtasks))
                /\ UNCHANGED storage
           ELSE LET caught == ApiClientCatch(callers[c], storage)
                IN  /\ storage' = caught.store
                    /\ callers' = [callers EXCEPT ![c] =
                                      Throw(Redirect(caught.caller), refreshes[p].error)]
                    /\ microtasks' = Append(Tail(microtasks), c)
                    /\ refreshes' = DropRefresh([refreshes EXCEPT ![p].cleared = @ + 1],
                                                p, Tail(microtasks))
    /\ UNCHANGED <<now, pathname, minted, login>>

\* lines 450-485: the retried request is answered; its rejection is thrown
\* inside the try whose catch handles a failed refresh
RetryResponse(c, resp) ==
    /\ microtasks = <<>>
    /\ callers[c].pc = "retry"
    /\ IF resp.kind = "reject"
       THEN LET caught == ApiClientCatch(callers[c], storage)
            IN  /\ isRefreshing' = ResetHandle(isRefreshing, refreshPromise).flag
                /\ refreshPromise' = ResetHandle(isRefreshing, refreshPromise).promise
                /\ storage' = caught.store
                /\ callers' = [callers EXCEPT ![c] =
                                  Throw(Redirect(caught.caller), FetchError(resp.why, 0))]
       ELSE /\ callers' = [callers EXCEPT ![c] = ReturnRetry(@, resp)]
            /\ UNCHANGED <<isRefreshing, refreshPromise, storage>>
    /\ microtasks' = Append(microtasks, c)
    /\ UNCHANGED <<now, pathname, refreshes, minted, login>>

\* lines 577-607 (and the same lines of the other wrappers): what an endpoint
\* wrapper does with the response apiClient returned and its body
WrapperOutcome(status, body) ==
    IF body = "empty" \/ body = "malformed" THEN "throw"
    ELSE IF ~(status >= 200 /\ status <= 299) THEN "throw"
    ELSE IF body = "failure" THEN "throw"
    ELSE "return"

\* the endpoint wrapper that awaited apiClient takes the response or the
\* error; the locals of the call are gone
Deliver(c) ==
    /\ microtasks # <<>> /\ Head(microtasks) = c
    /\ callers[c].pc \in {"returned", "thrown"}
    /\ callers' = [callers EXCEPT ![c] = DoneCaller]
    /\ microtasks' = Tail(microtasks)
    /\ UNCHANGED <<now, storage, pathname, isRefreshing, refreshPromise, refreshes,
                   minted, login>>

----------------------------------------------------------------------------
\* Login form, logout, route guard, clock

\* Login.handleSubmit calls loginEndpoint(email, password): the request is sent
LoginSubmit ==
    /\ microtasks = <<>>
    /\ pathname = "/login"
    /\ login = "idle"
    /\ login' = "sent"
    /\ UNCHANGED <<now, storage, pathname, isRefreshing, refreshPromise, refreshes,
                   callers, microtasks, minted>>

\* loginEndpoint lines 76-135: what the code does with the answer
LoginOutcome(resp) ==
    IF resp.kind = "reject" THEN "throw"
    ELSE IF resp.body = "empty" \/ resp.body = "malformed" THEN "throw"
    ELSE IF ~ResponseOk(resp) THEN "throw"
    ELSE IF resp.body = "failure" THEN "throw"
    ELSE "save"

\* loginEndpoint lines 88-130: the error thrown for an answer it does not accept
LoginThrown(resp) ==
    IF resp.kind = "reject" THEN FetchError(resp.why, 0)
    ELSE IF resp.body = "empty" \/ resp.body = "malformed" THEN ParseError(resp, 0)
    ELSE ApiError(resp.status, 0)

\* Login.tsx lines 37-41: the form writes five of the fields again
LoginFormWrites(st, data) ==
    LET s1 == setItem(st, "access_token", data.access_token)
        s2 == setItem(s1, "refresh_token", data.refresh_token)
        s3 == setItem(s2, "token_type", data.token_type)
        s4 == setItem(s3, "expires_in", data.expires_in)
    IN  setItem(s4, "refresh_expires_in", data.refresh_expires_in)

\* Login.tsx line 32: the form accepts the envelope loginEndpoint returned
\* when its status field is 200 (data.success is true already)
FormAccepts(envelope) == envelope = 200

\* the login request is answered: loginEndpoint saves the tokens and returns,
\* or throws (also out of saveTokens, after its first writes); then the
\* continuation of handleSubmit runs: when loginEndpoint returned and it accepts
\* the envelope, it writes the fields again and calls navigate("/dashboard")
LoginResponse(resp, envelope) ==
    /\ microtasks = <<>>
    /\ login = "sent"
    /\ login' = "idle"
    /\ IF LoginOutcome(resp) = "save"
       THEN \E data \in TokenData :
               /\ minted' = minted + 1
               /\ IF ~SaveThrows(data) /\ FormAccepts(envelope)
                  THEN /\ storage' = LoginFormWrites(saveTokens(storage, data, now), data)
                       /\ pathname' = "/dashboard"
                  ELSE /\ storage' = saveTokens(storage, data, now)
                       /\ UNCHANGED pathname
       ELSE UNCHANGED <<storage, minted, pathname>>
    /\ UNCHANGED <<now, isRefreshing, refreshPromise, refreshes, callers, microtasks>>

\* App.handleLogout, passed to Dashboard as onLogout
handleLogout ==
    /\ microtasks = <<>>
    /\ pathname = "/dashboard"
    /\ storage' = clearTokens(storage)
    /\ UNCHANGED <<now, pathname, isRefreshing, refreshPromise, refreshes, callers,
                   microtasks, minted, login>>

\* PrivateRoute renders: without an access token it navigates to /login
PrivateRoute ==
    /\ microtasks = <<>>
    /\ pathname = "/dashboard"
    /\ ~Truthy(getAccessToken(storage))
    /\ pathname' = "/login"
    /\ UNCHANGED <<now, storage, isRefreshing, refreshPromise, refreshes, callers,
                   microtasks, minted, login>>

\* a second passes
Tick ==
    /\ microtasks = <<>>
    /\ now < MaxTicks * 1000
    /\ now' = now + 1000
    /\ UNCHANGED <<storage, pathname, isRefreshing, refreshPromise, refreshes, callers,
                   microtasks, minted, login>>

----------------------------------------------------------------------------
Init ==
    /\ now = 0
    /\ storage = <<>>
    /\ pathname = "/login"
    /\ isRefreshing = FALSE
    /\ refreshPromise = 0
    /\ refreshes = [c \in Callers |-> NoRefresh]
    /\ callers = [c \in Callers |-> InitCaller]
    /\ microtasks = <<>>
    /\ minted = 0
    /\ login = "idle"

Next ==
    \/ \E c \in Callers : ApiClientCall(c)
    \/ \E c \in Callers : ProactiveResume(c)
    \/ \E c \in Callers, resp \in ApiResponses : FirstResponse(c, resp)
    \/ \E c \in Callers : ReactiveResume(c)
    \/ \E c \in Callers, resp \in ApiResponses : RetryResponse(c, resp)
    \/ \E c \in Callers : Deliver(c)
    \/ \E r \in Callers, resp \in AuthResponses : RefreshPrimaryResponse(r, resp)
    \/ \E r \in Callers, resp \in AuthResponses : RefreshHeaderResponse(r, resp)
    \/ LoginSubmit
    \/ \E resp \in AuthResponses, envelope \in Statuses : LoginResponse(resp, envelope)
    \/ handleLogout
    \/ PrivateRoute
    \/ Tick

Spec == Init /\ [][Next]_vars

\* Every fetch is answered or rejects in the end, and the event loop runs the
\* continuations it has queued.
Fairness ==
    \A c \in Callers :
       /\ WF_vars(\E resp \in ApiResponses : FirstResponse(c, resp))
       /\ WF_vars(\E resp \in ApiResponses : RetryResponse(c, resp))
       /\ WF_vars(\E resp \in AuthResponses : RefreshPrimaryResponse(c, resp))
       /\ WF_vars(\E resp \in AuthResponses : RefreshHeaderResponse(c, resp))
       /\ WF_vars(ProactiveResume(c))
       /\ WF_vars(ReactiveResume(c))
       /\ WF_vars(Deliver(c))

FairSpec == Spec /\ Fairness

----------------------------------------------------------------------------
\* isTokenExpired on its own.  localStorage outlives the page: a page load
\* finds whatever record earlier loads, other tabs and the server's JSON left
\* there.  The record and the time are drawn from bounded sets, and the
\* dashboard calls apiClient, whose line 381 evaluates isTokenExpired.

\* the strings a record can hold under each key
FullRecords ==
    { [access_token |-> 1, refresh_token |-> 1, token_type |-> "Bearer",
       expires_in |-> e, refresh_expires_in |-> 1, token_timestamp |-> ts] :
      e \in ExpiresIn \cup {NotNumeric},
      ts \in {k * 1000 : k \in 0..MaxTicks} \cup {NotNumeric} }

\* a record with any of its keys missing
StoredRecords ==
    { [k \in K |-> f[k]] : f \in FullRecords, K \in SUBSET CredKeys }

\* the instants at which the record is looked at: each second and the
\* millisecond before the next
Instants == { k * 1000 + d : k \in 0..MaxTicks, d \in {0, 999} }

ExpiryInit ==
    /\ now \in Instants
    /\ storage \in StoredRecords
    /\ pathname = "/dashboard"
    /\ isRefreshing = FALSE
    /\ refreshPromise = 0
    /\ refreshes = [c \in Callers |-> NoRefresh]
    /\ callers = [c \in Callers |-> InitCaller]
    /\ microtasks = <<>>
    /\ minted = 0
    /\ login = "idle"

ExpiryNext ==
    \/ \E c \in Callers : ApiClientCall(c)
    \/ Tick

ExpirySpec == ExpiryInit /\ [][ExpiryNext]_vars

----------------------------------------------------------------------------
\* The headers of apiClient on their own.  apiClient is exported and takes
\* any RequestInit, and token_type is whatever string the server sent: the
\* calls of a signed-in dashboard are drawn with and without an Authorization
\* header of their own, and the record with either token type.

\* token_type: string
TokenTypes == {"Bearer", "mac"}

HeaderInit ==
    /\ now = 0
    /\ \E tt \in TokenTypes, e \in ExpiresIn :
          storage = saveTokens(<<>>, [access_token |-> 1, refresh_token |-> 1,
                                      token_type |-> tt, expires_in |-> e,
                                      refresh_expires_in |-> e], 0)
    /\ pathname = "/dashboard"
    /\ isRefreshing = FALSE
    /\ refreshPromise = 0
    /\ refreshes = [c \in Callers |-> NoRefresh]
    /\ callers \in [Callers -> {[InitCaller EXCEPT !.supplied = a] :
                                   a \in {0, CallerCredential}}]
    /\ microtasks = <<>>
    /\ minted = 1
    /\ login = "idle"

HeaderSpec == HeaderInit /\ [][Next]_vars

----------------------------------------------------------------------------
\* The logout handlers on their own.  Dashboard takes onLogout as an optional
\* prop; App passes handleLogout, and without the prop the Logout button runs
\* the fallback of the component, which ends in window.location.reload().

\* window.location.reload(): the document is loaded again, the module
\* variables and the pending calls of the old document are gone
Reload ==
    /\ isRefreshing' = FALSE
    /\ refreshPromise' = 0
    /\ refreshes' = [c \in Callers |-> NoRefresh]
    /\ callers' = [c \in Callers |-> InitCaller]
    /\ microtasks' = <<>>

\* Dashboard.tsx lines 282-292: the fallback of the Logout button
DashboardLogout ==
    /\ microtasks = <<>>
    /\ pathname = "/dashboard"
    /\ storage' = clearTokens(storage)
    /\ Reload
    /\ UNCHANGED <<now, pathname, minted, login>>

\* unnamed/part_000 lines 146-154: the fallback of the Logout button in the
\* other Dashboard of the repository: five removeItem calls for the record
DashboardLogoutPart000 ==
    /\ microtasks = <<>>
    /\ pathname = "/dashboard"
    /\ storage' = removeItem(removeItem(removeItem(removeItem(removeItem(storage,
                       "access_token"), "refresh_token"), "token_type"),
                       "expires_in"), "refresh_expires_in")
    /\ Reload
    /\ UNCHANGED <<now, pathname, minted, login>>

\* a signed-in dashboard: the record of a login, at any of the instants
LogoutInit ==
    /\ now \in Instants
    /\ storage \in FullRecords
    /\ pathname = "/dashboard"
    /\ isRefreshing = FALSE
    /\ refreshPromise = 0
    /\ refreshes = [c \in Callers |-> NoRefresh]
    /\ callers = [c \in Callers |-> InitCaller]
    /\ microtasks = <<>>
    /\ minted = 1
    /\ login = "idle"

LogoutNext ==
    \/ handleLogout
    \/ DashboardLogout
    \/ DashboardLogoutPart000
    \/ PrivateRoute
    \/ \E c \in Callers : ApiClientCall(c)
    \/ Tick

LogoutSpec == LogoutInit /\ [][LogoutNext]_vars

----------------------------------------------------------------------------
\* Properties

Absent(st) == DOMAIN st \cap CredKeys = {}

InFlightRefreshes == {r \in Callers : InFlight(refreshes[r])}

\* the continuation of call c after its first answer runs in this step
HandlesFirst(c) == callers[c].pc = "first" /\ callers'[c].pc # "first"

\* the continuation of call c after await refreshPromise runs in this step
ResumesReactive(c) == callers[c].pc = "refresh" /\ callers'[c].pc # "refresh"

\* the continuation of call c after the proactive await runs in this step
ResumesProactive(c) == callers[c].pc = "proactive" /\ callers'[c].pc # "proactive"

\* the continuation of call c after its retried request runs in this step
HandlesRetry(c) == callers[c].pc = "retry" /\ callers'[c].pc # "retry"

\* the "Session expired. Please login again." error of line 491
SessionExpired == ApiError(401, 0)

\* C1: callers that invoke apiClient while the token is expired and a refresh
\* token is stored (they all sit in the proactive await) wait for one and the
\* same refresh operation: exactly one was started.
C1_ConcurrentCallersShareOneRefresh ==
    LET waiting == {c \in Callers : callers[c].pc = "proactive"}
    IN  Cardinality(waiting) >= 2 => Cardinality({callers[c].awaits : c \in waiting}) = 1

\* C2: in every reachable state at most one execution of refreshTokenEndpoint
\* has started and not yet settled.
C2_AtMostOneRefreshInFlight == Cardinality(InFlightRefreshes) <= 1

\* C3 as stated: a call whose first answer is 401 while a reactive refresh
\* started by another call is in flight (isRefreshing true) starts no refresh
\* and awaits that same refreshPromise.
C3_JoinsWhateverIsStored ==
    [][\A c \in Callers :
          (/\ HandlesFirst(c)
           /\ callers'[c].first = 401
           /\ isRefreshing
           /\ refreshPromise \notin {0, c}
           /\ InFlight(refreshes[refreshPromise]))
          => (/\ callers'[c].pc = "refresh"
              /\ callers'[c].awaits = refreshPromise
              /\ ~InFlight(refreshes'[c]))]_vars

\* C3 amended: ... and a refresh token is stored when the 401 is handled: the
\* call starts no refresh, awaits that same refreshPromise, and when it resumes
\* it takes the outcome of that refresh (retry on success, the same error on
\* failure).
C3_JoinsInFlightRefresh ==
    [][\A c \in Callers :
          /\ (/\ HandlesFirst(c)
              /\ callers'[c].first = 401
              /\ isRefreshing
              /\ refreshPromise \notin {0, c}
              /\ InFlight(refreshes[refreshPromise])
              /\ Truthy(getRefreshToken(storage)))
             => (/\ callers'[c].pc = "refresh"
                 /\ callers'[c].awaits = refreshPromise
                 /\ refreshPromise' = refreshPromise
                 /\ ~InFlight(refreshes'[c])
                 /\ InFlightRefreshes' = InFlightRefreshes)
          /\ (ResumesReactive(c) /\ callers[c].awaits \notin {0, c})
             => LET r == refreshes[callers[c].awaits]
                IN  /\ Settled(r)
                    /\ r.phase = "fulfilled" => callers'[c].pc = "retry"
                    /\ r.phase = "rejected" =>
                          callers'[c].pc = "thrown" /\ callers'[c].error = r.error]_vars

\* C3 witness: a call that joined another call's refresh has resumed after the
\* starter and both have re-issued their request.
C3_Witness ==
    \E c, d \in Callers :
       /\ c # d
       /\ callers[c].pc = "retry" /\ callers[c].awaits = d
       /\ callers[d].pc = "retry" /\ callers[d].awaits = d

\* C4: the request of a call is issued at most twice; it is issued a second
\* time exactly when the first answer was 401 and the awaited refresh succeeded.
C4_AtMostOneRetry ==
    [][\A c \in Callers :
          LET a == callers[c]
              b == callers'[c]
          IN  /\ b.sends <= 2
              /\ (b.sends = 2 /\ a.sends # 2)
                 => (/\ a.pc = "refresh" /\ a.first = 401 /\ a.sends = 1
                     /\ a.awaits # 0 /\ refreshes[a.awaits].phase = "fulfilled")
              /\ (ResumesReactive(c) /\ a.awaits # 0 /\ refreshes[a.awaits].phase = "fulfilled")
                 => (b.pc = "retry" /\ b.sends = 2)]_vars

\* C4 witness: two consecutive 401 answers, returned after exactly one retry.
C4_Witness ==
    \E c \in Callers :
       callers[c].pc = "returned" /\ callers[c].sends = 2 /\ callers[c].first = 401
       /\ callers[c].status = 401

\* C5: when the retried request is answered 401 the response is returned as it
\* is: the step starts no refresh, leaves the six fields and the handle alone
\* and requests no navigation; only a rejected fetch makes the retry throw.
C5_Second401Returned ==
    [][\A c \in Callers :
          /\ (HandlesRetry(c) /\ callers'[c].pc = "returned")
             => (/\ storage' = storage
                 /\ refreshes' = refreshes
                 /\ isRefreshing' = isRefreshing /\ refreshPromise' = refreshPromise
                 /\ pathname' = pathname
                 /\ ~callers'[c].redirected
                 /\ callers'[c].error = NoError)
          /\ (HandlesRetry(c) /\ callers'[c].pc # "returned")
             => (callers'[c].pc = "thrown" /\ callers'[c].error.status \in {0, 0 - 1})]_vars

\* C5 witness: a second 401 has been returned while the refreshed tokens are
\* still stored.
C5_Witness ==
    \E c \in Callers :
       /\ callers[c].pc = "returned" /\ callers[c].sends = 2 /\ callers[c].status = 401
       /\ ~callers[c].redirected
       /\ Truthy(getAccessToken(storage)) /\ ~Absent(storage)

\* C6: the retried request carries the access token that the awaited refresh
\* persisted, never none and never the token of the first attempt.
C6_RetryCarriesRefreshedToken ==
    [][\A c \in Callers :
          (ResumesReactive(c) /\ callers'[c].pc = "retry")
          => (/\ callers[c].awaits # 0
              /\ refreshes[callers[c].awaits].phase = "fulfilled"
              /\ callers'[c].auth = refreshes[callers[c].awaits].saved
              /\ Truthy(callers'[c].auth)
              /\ callers'[c].auth # callers[c].auth)]_vars

\* C6 witness: a retry is in flight with the token its refresh saved, which is
\* not the token stored before.
C6_Witness ==
    \E c \in Callers :
       /\ callers[c].pc = "retry" /\ callers[c].awaits # 0
       /\ refreshes[callers[c].awaits].phase = "fulfilled"
       /\ callers[c].auth = refreshes[callers[c].awaits].saved
       /\ callers[c].auth > 1

\* C7: when the proactive refresh fails the request is never issued, the
\* refresh error is thrown, the six fields are absent, and the navigation to
\* /login is requested exactly when the path is not /login.
C7_ProactiveFailure ==
    [][\A c \in Callers :
          (ResumesProactive(c) /\ refreshes[callers[c].awaits].phase = "rejected")
          => (/\ callers'[c].pc = "thrown"
              /\ callers'[c].sends = 0
              /\ callers'[c].error = refreshes[callers[c].awaits].error
              /\ callers'[c].error.name = "ApiError"
              /\ Absent(storage')
              /\ callers'[c].redirected = (pathname # "/login"))]_vars

\* C7 witness: a call has thrown the error of its own proactive refresh
\* without sending anything, and requested the navigation.
C7_Witness ==
    \E c \in Callers :
       /\ callers[c].pc = "thrown" /\ callers[c].sends = 0
       /\ callers[c].error.refresh = c /\ callers[c].redirected
       /\ Absent(storage)

\* C8: a call whose first answer is 401 with no refresh token stored fails with
\* the session-expired ApiError (status 401), with the six fields absent and
\* the navigation requested when the path is not /login.
C8_NoRefreshTokenTerminates ==
    \A c \in Callers :
       (callers[c].pc = "thrown" /\ callers[c].first = 401
        /\ callers[c].error = SessionExpired)
       => (Absent(storage) /\ callers[c].redirected = (pathname # "/login"))

\* C9: when refreshTokenEndpoint has failed, the six fields are absent and the
\* error is an ApiError; an absent record is expired at every time, and it
\* stays expired until a step that saves the tokens of a login or a refresh.
C9_FailedRefreshClears ==
    /\ [](\A r \in Callers :
            refreshes[r].phase = "rejected"
            => (Absent(storage) /\ refreshes[r].error.name = "ApiError"))
    /\ [](Absent(storage) => \A t \in Instants : isTokenExpired(storage, t))
    /\ [][(Absent(storage) /\ ~isTokenExpired(storage', now'))
          => (minted' = minted + 1 /\ ~Absent(storage'))]_vars

\* C9 witness: both modes of a refresh have failed and the record is gone.
C9_Witness ==
    \E r \in Callers :
       /\ refreshes[r].phase = "rejected" /\ refreshes[r].headerSent
       /\ refreshes[r].error.status = 401
       /\ Absent(storage) /\ isTokenExpired(storage, now)

\* C10: a refresh whose body-mode answer had status 401 is not declared failed
\* before the header-mode request has been sent.
C10_HeaderModeAfterEvery401 ==
    \A r \in Callers :
       (refreshes[r].phase = "rejected" /\ refreshes[r].primary = 401)
       => refreshes[r].headerSent

\* C11: when an execution of refreshTokenEndpoint returns (in either mode) the
\* record is exactly the six fields of the response it saved, with
\* token_timestamp the time of the write; nothing of the record before is left.
C11_RefreshOverwritesRecord ==
    [][\A r \in Callers :
          (refreshes'[r].phase = "fulfilled" /\ refreshes[r].phase # "fulfilled")
          => \E data \in TokenData :
                /\ ~SaveThrows(data)
                /\ refreshes'[r].saved = data.access_token
                /\ DOMAIN storage' = CredKeys
                /\ \A k \in CredKeys \ {"token_timestamp"} : storage'[k] = data[k]
                /\ storage'["token_timestamp"] = now]_vars

\* C11 witness: the header-mode request of a refresh has been answered with
\* new tokens one second after the login, and the record holds them.
C11_Witness ==
    \E r \in Callers :
       /\ refreshes[r].phase = "fulfilled" /\ refreshes[r].headerSent
       /\ refreshes[r].saved > 1
       /\ DOMAIN storage = CredKeys
       /\ storage["access_token"] = refreshes[r].saved
       /\ storage["token_timestamp"] = now /\ now > 0

FullyPresent(st) == CredKeys \subseteq DOMAIN st

\* C12: whenever control can pass to another task (no continuation is
\* queued) the record is fully present or fully absent.
C12_RecordAllOrNothing ==
    microtasks = <<>> => (FullyPresent(storage) \/ Absent(storage))

\* the stored string of key k is missing or parseInt does not read a number
Unparseable(st, k) == k \notin DOMAIN st \/ parseInt(st[k]) = NaN

\* C13: isTokenExpired() is true whenever expires_in or token_timestamp is
\* missing or is not parseable as an integer.
C13_UnparseableIsExpired ==
    (Unparseable(storage, "expires_in") \/ Unparseable(storage, "token_timestamp"))
    => isTokenExpired(storage, now)

\* C14: isTokenExpired() is true for every record with at least one of the
\* six fields missing, whatever the other fields and the time (the fields
\* that are there hold what the code writes: numerals where it expects them).
C14_PartialIsExpired ==
    (/\ ~FullyPresent(storage)
     /\ \A k \in {"expires_in", "token_timestamp"} \cap DOMAIN storage :
           parseInt(storage[k]) # NaN)
    => isTokenExpired(storage, now)

\* C15: for a fully set record with token_timestamp T and expires_in N (whole
\* numbers), isTokenExpired() is false at every time before T + N*1000 and
\* true from T + N*1000 on.
C15_ExactBoundary ==
    (/\ FullyPresent(storage)
     /\ ~Unparseable(storage, "expires_in") /\ ~Unparseable(storage, "token_timestamp"))
    => (isTokenExpired(storage, now)
        <=> now >= storage["token_timestamp"] + storage["expires_in"] * 1000)

\* C15 witness: apiClient is called one millisecond before a one-second token
\* expires, and sends the request without a refresh.
C15_Witness ==
    /\ FullyPresent(storage)
    /\ storage["expires_in"] = 1 /\ storage["token_timestamp"] = 0 /\ now = 999
    /\ callers[1].pc = "first"

\* the handle refers to execution r
HandleRefersTo(r) == isRefreshing /\ refreshPromise = r

\* call c awaits the promise of execution r and has not resumed
Waits(c, r) == callers[c].pc = "refresh" /\ callers[c].awaits = r

C17_ObserverUsesSameRefresh ==
    [][\A c \in Callers :
          (callers[c].observed # 0 /\ HandlesFirst(c) /\ callers'[c].pc = "refresh")
          => (/\ callers'[c].awaits = callers[c].observed
              /\ refreshes'[c] = refreshes[c])]_vars

\* a step of the apiClient dispatch path: a call starts, resumes or ends
ApiClientStep == \E c \in Callers : callers'[c] # callers[c]

\* C18: no step of the apiClient dispatch path sets or removes any of the six
\* fields; they change only in refreshTokenEndpoint, login and logout.
C18_DispatchLeavesRecordAlone ==
    [][ApiClientStep => storage' = storage]_vars

\* C19: for a refresh that failed, the six fields are removed exactly once:
\* by the catch of refreshTokenEndpoint, and not again by the call that
\* awaited it.
C19_ClearedExactlyOnce ==
    /\ \A r \in Callers : refreshes[r].phase = "rejected" => refreshes[r].cleared = 1
    /\ \A c \in Callers :
          (callers[c].pc = "thrown" /\ callers[c].error.refresh # 0)
          => ~callers[c].cleared

\* C20: whatever leaves loginEndpoint, refreshTokenEndpoint, apiClient or an
\* endpoint wrapper as an error is an ApiError, and a call that ends has
\* either returned a response or thrown one.
C20_OnlyApiErrorsLeave ==
    /\ \A r \in Callers :
          refreshes[r].phase = "rejected" => refreshes[r].error.name = "ApiError"
    /\ \A c \in Callers :
          /\ callers[c].pc = "thrown"
             => (/\ callers[c].error.name = "ApiError"
                 /\ WrapError(callers[c].error) = callers[c].error)
          /\ callers[c].pc = "returned" => callers[c].error = NoError
    /\ \A resp \in AuthResponses :
          LoginOutcome(resp) = "throw" => WrapError(LoginThrown(resp)).name = "ApiError"
    /\ WrapError(TypeError(0)).name = "ApiError"

\* C20 witness: a fetch rejected with something that is no TypeError about
\* fetch, and the call has thrown it wrapped in an ApiError without status.
C20_Witness ==
    \E c \in Callers :
       /\ callers[c].pc = "thrown" /\ callers[c].sends = 1
       /\ callers[c].error = ApiError(Undefined, 0)

\* call c issues its request (the first attempt or the retry) in this step
Sends(c) == callers'[c].sends = callers[c].sends + 1

\* C21: an Authorization header the caller supplied in options.headers is
\* sent unchanged with every request apiClient issues, the first attempt and
\* the retry.
C21_CallerHeadersKept ==
    [][\A c \in Callers :
          (Sends(c) /\ callers[c].supplied # 0)
          => (/\ callers'[c].auth = callers[c].supplied
              /\ callers'[c].scheme = CallerScheme)]_vars

\* C22: the Authorization header apiClient attaches itself is the stored
\* token_type, a space and the stored access_token.
C22_HeaderUsesTokenType ==
    [][\A c \in Callers :
          (Sends(c) /\ callers[c].supplied = 0 /\ Truthy(callers'[c].auth))
          => (/\ "token_type" \in DOMAIN storage
              /\ callers'[c].scheme = storage["token_type"]
              /\ callers'[c].auth = getAccessToken(storage))]_vars

\* apiClient is called as call c in this step
Calls(c) == callers[c].pc = "idle" /\ callers'[c].pc # "idle"

\* C23: a call made when the stored token is expired, a refresh token is
\* stored and no refresh is registered starts one refresh of its own and
\* issues nothing while it is pending; it resumes when that refresh has
\* settled, and on success issues the request with the access token that
\* refresh saved.
C23_ProactiveRefreshFirst ==
    [][\A c \in Callers :
          /\ (/\ Calls(c)
              /\ isTokenExpired(storage, now)
              /\ Truthy(getRefreshToken(storage))
              /\ ~isRefreshing)
             => (/\ callers'[c].pc = "proactive" /\ callers'[c].sends = 0
                 /\ callers'[c].awaits = c
                 /\ InFlight(refreshes'[c]) /\ refreshes'[c].requests = 1
                 /\ ~InFlight(refreshes[c]))
          /\ (callers[c].pc = "proactive" /\ callers'[c].pc = "proactive")
             => (/\ callers'[c].sends = 0
                 /\ refreshes'[c].requests >= refreshes[c].requests
                 /\ refreshes'[c].phase = "primary" => refreshes[c].phase = "primary")
          /\ ResumesProactive(c)
             => (callers[c].awaits = c /\ Settled(refreshes[c]))
          /\ (ResumesProactive(c) /\ refreshes[c].phase = "fulfilled")
             => (/\ callers'[c].pc = "first" /\ callers'[c].sends = 1
                 /\ callers'[c].auth = refreshes[c].saved
                 /\ callers'[c].auth = getAccessToken(storage')
                 /\ Truthy(callers'[c].auth))]_vars

\* C23 witness: the proactive refresh of a call has saved new tokens in
\* header mode and the call, which has sent nothing yet, is about to resume.
C23_Witness ==
    \E c \in Callers :
       /\ callers[c].pc = "proactive" /\ callers[c].sends = 0
       /\ refreshes[c].phase = "fulfilled" /\ refreshes[c].requests = 2
       /\ refreshes[c].saved = getAccessToken(storage)
       /\ microtasks # <<>> /\ Head(microtasks) = c

\* C24: apiClient never issues a request that carries an access token for
\* which isTokenExpired() is true at the moment of sending.
C24_NoExpiredTokenSent ==
    [][\A c \in Callers :
          (Sends(c) /\ callers[c].supplied = 0 /\ Truthy(callers'[c].auth))
          => ~isTokenExpired(storage', now')]_vars

\* call c ends the session in this step: it removes the six fields or asks
\* for the navigation to /login
Terminates(c) ==
    \/ callers'[c].cleared /\ ~callers[c].cleared
    \/ callers'[c].redirected /\ ~callers[c].redirected

\* C25: within a call the session is ended only by a failed refresh step; the
\* outcome of the retried request never ends it.
C25_RetryNeverTerminates ==
    [][\A c \in Callers :
          HandlesRetry(c) => (~Terminates(c) /\ storage' = storage)]_vars

\* call c has been made and has not ended
Pending(c) == callers[c].pc \notin {"idle", "done"}

\* C26: when every fetch is answered or rejects, every call ends (it returns
\* a response or throws), whatever the other calls do; and once no call is
\* pending the handle is clear.
C26_EveryCallCompletes ==
    /\ \A c \in Callers : Pending(c) ~> callers[c].pc = "done"
    /\ []((\A c \in Callers : ~Pending(c)) => (~isRefreshing /\ refreshPromise = 0))

\* C26 witness: every call has ended, the server has issued a second token
\* pair meanwhile, and the handle is clear.
C26_Witness ==
    /\ \A c \in Callers : callers[c].pc = "done"
    /\ minted >= 2
    /\ ~isRefreshing /\ refreshPromise = 0

\* a 2xx answer whose envelope says success = false
FailureIn2xx(resp) == resp.kind = "response" /\ ResponseOk(resp) /\ resp.body = "failure"

\* a 2xx answer whose envelope says success = true
SuccessIn2xx(resp) == resp.kind = "response" /\ ResponseOk(resp) /\ resp.body = "success"

\* C27: refreshTokenEndpoint, loginEndpoint and the endpoint wrappers return
\* only for a 2xx answer with success = true; a 2xx answer with success = false
\* makes them throw an ApiError, and none of its tokens is stored.
C27_SuccessNeedsOkAndFlag ==
    /\ [][\A r \in Callers :
            /\ (refreshes[r].phase = "primary" /\ refreshes'[r].phase = "fulfilled")
               => \A resp \in AuthResponses :
                    ~SuccessIn2xx(resp) => ~RefreshPrimaryResponse(r, resp)
            /\ (refreshes[r].phase = "header" /\ refreshes'[r].phase = "fulfilled")
               => \A resp \in AuthResponses :
                    ~SuccessIn2xx(resp) => ~RefreshHeaderResponse(r, resp)]_vars
    /\ [][\A r \in Callers :
            (InFlight(refreshes[r]) /\ refreshes'[r].phase # refreshes[r].phase)
            => \A resp \in AuthResponses :
                 (/\ FailureIn2xx(resp)
                  /\ RefreshPrimaryResponse(r, resp) \/ RefreshHeaderResponse(r, resp))
                 => /\ refreshes'[r].phase = "rejected"
                    /\ refreshes'[r].error = ApiError(resp.status, r)
                    /\ Absent(storage') /\ minted' = minted]_vars
    /\ [][(/\ login = "sent" /\ login' = "idle"
           /\ storage' # storage \/ minted' # minted \/ pathname' # pathname)
          => \A resp \in AuthResponses, envelope \in Statuses :
               ~SuccessIn2xx(resp) => ~LoginResponse(resp, envelope)]_vars
    /\ [](/\ \A resp \in AuthResponses :
               /\ LoginOutcome(resp) = "save" <=> SuccessIn2xx(resp)
               /\ FailureIn2xx(resp)
                  => WrapError(LoginThrown(resp)) = ApiError(resp.status, 0)
          /\ \A status \in Statuses, body \in Bodies :
               WrapperOutcome(status, body) = "return"
               <=> (status >= 200 /\ status <= 299 /\ body = "success"))

\* C27 witness: the body-mode request of a refresh was answered 200, the
\* refresh has thrown an ApiError with that status without a second request,
\* and no token is stored.
C27_Witness ==
    \E r \in Callers :
       /\ refreshes[r].phase = "rejected" /\ refreshes[r].primary = 200
       /\ refreshes[r].requests = 1
       /\ refreshes[r].error = ApiError(200, r)
       /\ Absent(storage)

\* C28: after a logout through any of the logout handlers (App.handleLogout,
\* the fallback of either Dashboard) the six fields are absent and
\* isTokenExpired() is true: nothing of the old session, token_timestamp in
\* particular, is left.
C28_LogoutClearsRecord ==
    [][(handleLogout \/ DashboardLogout \/ DashboardLogoutPart000)
       => (Absent(storage') /\ isTokenExpired(storage', now'))]_vars

\* C29: refreshTokenEndpoint sends the header-mode request only after a
\* body-mode answer that was refused with status 401; after any other refused
\* answer (a 2xx with success false included) there is no second request, and
\* one execution sends at most two requests to /auth/refresh.
C29_HeaderModeOnlyAfter401 ==
    /\ \A r \in Callers :
          /\ refreshes[r].requests <= 2
          /\ refreshes[r].headerSent <=> refreshes[r].requests = 2
          /\ refreshes[r].headerSent => refreshes[r].primary = 401
          /\ refreshes[r].phase = "header" => refreshes[r].headerSent
    /\ \A resp \in AuthResponses :
          PrimaryOutcome(resp) = "header" =>
              /\ resp.kind = "response" /\ resp.status = 401
              /\ ~ResponseOk(resp) \/ resp.body = "failure"

\* the header mode has answered a refresh whose body mode got a 401
C29_Witness ==
    \E r \in Callers :
        /\ refreshes[r].phase = "fulfilled"
        /\ refreshes[r].headerSent
        /\ refreshes[r].primary = 401
        /\ refreshes[r].requests = 2

\* fetch rejected
Rejected(resp) == resp.kind = "reject"

\* C30: a rejected network call in loginEndpoint, in either mode of
\* refreshTokenEndpoint, or in the first attempt or the retry of apiClient
\* reaches the caller as an ApiError with status 0, whatever was rejected.
C30_TransportFailureIsStatus0 ==
    /\ [][\A c \in Callers :
            (callers[c].pc \in {"first", "retry"} /\ callers'[c].pc = "thrown") =>
                \A resp \in ApiResponses :
                    (Rejected(resp) /\ (FirstResponse(c, resp) \/ RetryResponse(c, resp)))
                        => callers'[c].error = ApiError(0, 0)]_vars
    /\ [][\A r \in Callers :
            (InFlight(refreshes[r]) /\ refreshes'[r].phase = "rejected") =>
                \A resp \in AuthResponses :
                    (Rejected(resp) /\ (RefreshPrimaryResponse(r, resp)
                                         \/ RefreshHeaderResponse(r, resp)))
                        => refreshes'[r].error = ApiError(0, r)]_vars
    /\ [][(login = "sent" /\ login' = "idle") =>
            \A resp \in AuthResponses, envelope \in Statuses :
                (Rejected(resp) /\ LoginResponse(resp, envelope))
                    => WrapError(LoginThrown(resp)) = ApiError(0, 0)]_vars

\* the retried request of call c, sent after the refresh it awaited had
\* succeeded, was rejected and the call has thrown
RetryFailed(c) ==
    /\ callers[c].pc = "thrown"
    /\ callers[c].sends = 2
    /\ callers[c].awaits # 0

\* C31: when the reactive refresh of a call succeeded and its retried request
\* then fails at transport level, the call has neither removed the stored
\* tokens nor asked for the redirect to /login when its error reaches the
\* caller.
C31_RetryFailureKeepsTokens ==
    \A c \in Callers :
        RetryFailed(c) => (~callers[c].cleared /\ ~callers[c].redirected)

\* the operations in a position to write the record: the executions of
\* refreshTokenEndpoint that await an answer, and loginEndpoint when it does
Writers == Cardinality(InFlightRefreshes) + (IF login = "sent" THEN 1 ELSE 0)

\* execution r of refreshTokenEndpoint saves its tokens in this step
RefreshSaves(r) == InFlight(refreshes[r]) /\ refreshes'[r].phase = "fulfilled"

\* loginEndpoint saves its tokens in this step
LoginSaves == login = "sent" /\ login' = "idle" /\ storage' # storage

\* C32: tokens persisted by a login or a refresh are not overwritten or
\* removed by the completion of another refresh that was in flight when they
\* were written, and at any time at most one operation is in a position to
\* write the record.
C32_OneWriterAtATime ==
    /\ [](Writers <= 1)
    /\ [][((\E r \in Callers : RefreshSaves(r)) \/ LoginSaves) => Writers' = 0]_vars

\* C33: the handle of a refresh that is in flight is not cleared while it is
\* in flight: no reset of isRefreshing and refreshPromise by a call that
\* awaited an earlier refresh clears the handle of a newer one.
C33_ResetSparesNewerRefresh ==
    [][\A r \in Callers :
          (HandleRefersTo(r) /\ InFlight(refreshes[r]) /\ InFlight(refreshes'[r]))
              => (isRefreshing' /\ refreshPromise' = r)]_vars

\* the login request is answered in this step
LoginAnswered == login = "sent" /\ login' = "idle"

\* C34: a loginEndpoint call that throws, for an answer it refuses or for
\* token data saveTokens cannot write in full, leaves the six fields as they
\* were before the call.
C34_FailedLoginLeavesRecord ==
    [][LoginAnswered =>
          /\ \A resp \in AuthResponses :
                (LoginOutcome(resp) # "save" /\ LoginResponse(resp, 200))
                    => storage' = storage
          /\ \A data \in TokenData :
                (/\ SaveThrows(data)
                 /\ minted' = minted + 1 /\ pathname' = pathname
                 /\ storage' = saveTokens(storage, data, now))
                    => storage' = storage]_vars

\* C35: whenever a handler or a continuation has run to its end the two
\* module variables agree: isRefreshing is true exactly when refreshPromise
\* is not null.
C35_FlagAndPromiseAgree == isRefreshing <=> refreshPromise # 0

\* C35 witness: a call registered a refresh, awaited it and reset the handle,
\* and the handle now refers to the refresh another call registered after that
C35_Witness ==
    \E r, c \in Callers :
        /\ c # r
        /\ callers[c].pc = "retry" /\ callers[c].awaits = c
        /\ HandleRefersTo(r) /\ InFlight(refreshes[r])
        /\ Waits(r, r)

====
